---- MODULE Spec2Model ----
(***************************************************************************)
(* Account identity and session layer of efficio-webapp.                   *)
(*                                                                         *)
(* The storage backend (Redis) is the only shared state.  Every request is *)
(* a process that issues storage commands one at a time; each command is   *)
(* one atomic step, so two requests interleave at command granularity.     *)
(*                                                                         *)
(*   src/src/db/users.rs       save_user, delete_user, verify_password,    *)
(*                             regen_auth                                  *)
(*   src/backend/src/db/ids.rs get_next_id (counter + persisted salt)      *)
(*   src/src/main.rs           the routes that call into the above         *)
(*                                                                         *)
(* db::sessions, db::stores, session::login/logout and user::create_user/  *)
(* delete_user are not part of the available sources; they are modelled    *)
(* from sections 4.4 and 4.5 of the specification.                         *)
(***************************************************************************)
EXTENDS Integers, Sequences, FiniteSets, TLC

VARIABLES
    next_user_id,   \* Redis key "next_user_id": the account-id counter
    users,          \* Redis hash "users": lower-cased username -> user id
    user,           \* Redis hashes "user:<id>": id -> (field -> value)
    sessions,       \* Session Store: token -> user id
    stores,         \* account-owned resources: set of [store_id, owner]
    next_store_id,  \* counter of the store ids
    user_id_salt,   \* Redis key "user_id_salt" (NoSalt when the key is absent)
    rng,            \* number of calls that drew from the random source
    pc,             \* per request: the storage command it executes next
    loc,            \* per request: the local variables of the running function
    ret             \* per request: the last call and what it returned

vars == <<next_user_id, users, user, sessions, stores, next_store_id,
          user_id_salt, rng, pc, loc, ret>>

db == <<next_user_id, users, user, sessions, stores, next_store_id, user_id_salt>>

-----------------------------------------------------------------------------
(* Bounds of the model *)

\* the account-id counter is incremented at most this often
MaxUserId == 2

\* the random source is used by at most this many calls
MaxRng == 2

\* at most this many stores are created
MaxStores == 1

\* the requests that may be in flight together
Procs == {"r1", "r2"}

-----------------------------------------------------------------------------
(* Inputs: usernames are sequences of ASCII codes, so that lower-casing is *)
(* computed; "toto", "ToTo" and "tata" are the names of the tests.         *)

toto == <<116, 111, 116, 111>>
ToTo == <<84, 111, 84, 111>>
tata == <<116, 97, 116, 97>>

Usernames == {toto, ToTo, tata}
Passwords == {"pwd", "pwdb"}
Emails == {"m@m.com"}
NoName == <<>>
NoId == 0
NoToken == 0
NoSalt == ""

\* char::to_lowercase on ASCII: 'A'..'Z' move to 'a'..'z'
lower_char(ch) == IF ch >= 65 /\ ch <= 90 THEN ch + 32 ELSE ch

\* str::to_lowercase
to_lowercase(s) == [i \in 1..Len(s) |-> lower_char(s[i])]

\* no hashing: the data itself
hash_plain(data, salt) == data

\* argon2i_simple rendered as hex: an injective image of (data, salt)
hash(data, salt) == "argon2i(" \o data \o "," \o salt \o ")"

\* the key "user:<id>" is the id itself in the map user
user_key(user_id) == user_id

\* The random source.  rng counts the calls that drew from it; what the n-th
\* call draws was never drawn before (a 256-bit token, 64-bit salts).
\* 32 random bytes rendered as hex
gen_auth == rng + 1

\* rng.gen::<u64>().to_string(): the two salts of one save_user
gen_salt_mail == ToString(2 * (rng + 1))
gen_salt_pwd == ToString(2 * (rng + 1) + 1)

-----------------------------------------------------------------------------
(* Redis commands on hashes and keys, as functions with a finite domain *)

Put(f, k, v) == [x \in DOMAIN f \cup {k} |-> IF x = k THEN v ELSE f[x]]
Del(f, k) == [x \in DOMAIN f \ {k} |-> f[x]]
Empty == [x \in {} |-> 0]

hexists(h, field) == field \in DOMAIN h

\* the hash is replaced by one that has the field only
hset_user_only(key, field, value) == Put(user, key, Put(Empty, field, value))

\* HSET key field value: creates the hash when the key is absent
hset_user(key, field, value) ==
    IF key \in DOMAIN user
    THEN Put(user, key, Put(user[key], field, value))
    ELSE Put(user, key, Put(Empty, field, value))

\* HGET key field: true when the reply is a value (not nil)
hget_ok(key, field) == key \in DOMAIN user /\ field \in DOMAIN user[key]

-----------------------------------------------------------------------------
(* Requests.  loc holds the locals of the running function under the names *)
(* of the source: user_id, auth, salt_mail, salt_pwd; stored is the username *)
(* read back by delete_user, id the counter value of get_next_id, whose      *)
(* generated salt s is kept in salt_pwd.  failed records that a storage      *)
(* command of the call returned an error.  password and email are the       *)
(* fields of the User or AuthInfo the request owns; once the request has     *)
(* returned they show what Drop left in them.                                *)

NoLoc == [username |-> NoName, password |-> "", email |-> "",
          norm_username |-> NoName, auth |-> NoToken,
          salt_mail |-> NoSalt, salt_pwd |-> NoSalt,
          user_id |-> NoId, id |-> 0, stored |-> NoName, failed |-> FALSE]

NoRet == [op |-> "none", username |-> NoName, password |-> "",
          auth |-> NoToken, status |-> "none", token |-> NoToken,
          user_id |-> NoId, hashed_id |-> "", salt |-> NoSalt, failed |-> FALSE]

\* the function returns: the request is over and its reply r is recorded
Return(p, r) ==
    /\ pc' = [pc EXCEPT ![p] = "idle"]
    /\ loc' = [loc EXCEPT ![p] = NoLoc]
    /\ ret' = [ret EXCEPT ![p] = r]

Reply(op, status) == [NoRet EXCEPT !.op = op, !.status = status]

\* the string is left as it is
replace_range_none(s, replace_with) == s

\* String::replace_range(..s.len(), replace_with): the whole of s is replaced
replace_range(s, replace_with) == replace_with

\* types.rs 67-72: Drop of the User a registration was called with; what its
\* password and email hold afterwards
drop_User(l) == [NoLoc EXCEPT !.password = replace_range(l.password, "0"),
                              !.email = replace_range(l.email, "0")]

\* types.rs 19-23: Drop of the AuthInfo a login was called with
drop_AuthInfo(l) == [NoLoc EXCEPT !.password = replace_range(l.password, "0")]

\* a registration returns r: the User it was called with goes out of scope
ReturnUser(p, l, r) ==
    /\ pc' = [pc EXCEPT ![p] = "idle"]
    /\ loc' = [loc EXCEPT ![p] = drop_User(l)]
    /\ ret' = [ret EXCEPT ![p] = r]

\* a login returns r: the AuthInfo it was called with goes out of scope
ReturnAuthInfo(p, l, r) ==
    /\ pc' = [pc EXCEPT ![p] = "idle"]
    /\ loc' = [loc EXCEPT ![p] = drop_AuthInfo(l)]
    /\ ret' = [ret EXCEPT ![p] = r]

\* the function goes on to its next storage command; a request in flight has
\* no reply yet
Goto(p, label, l) ==
    /\ pc' = [pc EXCEPT ![p] = label]
    /\ loc' = [loc EXCEPT ![p] = l]
    /\ ret' = [ret EXCEPT ![p] = NoRet]

Init ==
    /\ next_user_id = 0
    /\ users = Empty
    /\ user = Empty
    /\ sessions = Empty
    /\ stores = {}
    /\ next_store_id = 0
    /\ user_id_salt = NoSalt
    /\ rng = 0
    /\ pc = [p \in Procs |-> "idle"]
    /\ loc = [p \in Procs |-> NoLoc]
    /\ ret = [p \in Procs |-> NoRet]

\* the tokens a client can present: the ones issued so far, or a made-up one
Presentable == 0..rng

-----------------------------------------------------------------------------
(* Session Store (specification 4.4) and the cascade into the stores *)

\* store(token, accountId): unconditional upsert
store_session(auth, user_id) == Put(sessions, auth, user_id)

\* resolve(token): the token is known
has_session(auth) == auth \in DOMAIN sessions

\* resolve(token) -> AccountId
get_user_id(auth) == sessions[auth]

\* the entry is left in place
delete_session_none(auth) == sessions

\* revoke(token): removing an absent token is not an error
delete_session(auth) == Del(sessions, auth)

\* revokeAll: every session entry of the account the token belongs to
delete_all_user_sessions(auth) ==
    [t \in {x \in DOMAIN sessions : sessions[x] # get_user_id(auth)} |-> sessions[t]]

\* deleteAllResourcesForAccount
delete_all_user_stores(auth) == {s \in stores : s.owner # get_user_id(auth)}

-----------------------------------------------------------------------------
(* save_user / user::create_user: POST /user *)

\* the key is taken as given (the lower-casing forgotten)
norm_username_raw(username) == username

\* users.rs 41: the key of the Username Index
norm_username(username) == to_lowercase(username)

\* users.rs 41-53: the uniqueness check, then token, salts and hashes
save_user_hexists(p) ==
    /\ pc[p] = "idle"
    /\ \E username \in Usernames, password \in Passwords, email \in Emails :
         LET l0 == [NoLoc EXCEPT !.username = username, !.email = email,
                                 !.password = password,
                                 !.norm_username = norm_username(username)]
         IN  IF hexists(users, l0.norm_username)
             THEN /\ ReturnUser(p, l0, [Reply("register", "UsernameTaken") EXCEPT !.username = username])
                  /\ UNCHANGED <<db, rng>>
             ELSE /\ rng < MaxRng
                  /\ Goto(p, "save_user_incr",
                          [l0 EXCEPT !.auth = gen_auth,
                                     !.salt_mail = gen_salt_mail,
                                     !.salt_pwd = gen_salt_pwd])
                  /\ rng' = rng + 1
                  /\ UNCHANGED db

\* the id is the value the counter had before the increment
save_user_incr_old(p) ==
    /\ pc[p] = "save_user_incr"
    /\ next_user_id < MaxUserId
    /\ next_user_id' = next_user_id + 1
    /\ Goto(p, "save_user_hset_multiple", [loc[p] EXCEPT !.user_id = next_user_id])
    /\ UNCHANGED <<users, user, sessions, stores, next_store_id, user_id_salt, rng>>

\* users.rs 55: INCR next_user_id
save_user_incr(p) ==
    /\ pc[p] = "save_user_incr"
    /\ next_user_id < MaxUserId
    /\ next_user_id' = next_user_id + 1
    /\ Goto(p, "save_user_hset_multiple", [loc[p] EXCEPT !.user_id = next_user_id + 1])
    /\ UNCHANGED <<users, user, sessions, stores, next_store_id, user_id_salt, rng>>

\* the record holds the lower-cased username instead of the given one
user_record_norm(l) ==
    [username |-> l.norm_username,
     email |-> hash(l.email, l.salt_mail),
     password |-> hash(l.password, l.salt_pwd),
     salt_mail |-> l.salt_mail,
     salt_password |-> l.salt_pwd,
     auth |-> l.auth]

\* the fields written by users.rs 58-65
user_record(l) ==
    [username |-> l.username,
     email |-> hash(l.email, l.salt_mail),
     password |-> hash(l.password, l.salt_pwd),
     salt_mail |-> l.salt_mail,
     salt_password |-> l.salt_pwd,
     auth |-> l.auth]

\* HMSET key field value ...: sets the fields, keeps the other fields of the hash
hset_multiple(key, fields) ==
    IF key \in DOMAIN user
    THEN Put(user, key, [f \in DOMAIN user[key] \cup DOMAIN fields |->
                           IF f \in DOMAIN fields THEN fields[f] ELSE user[key][f]])
    ELSE Put(user, key, fields)

\* the index entry is written where the record should be
save_user_index_first(p) ==
    /\ pc[p] = "save_user_hset_multiple"
    /\ users' = Put(users, loc[p].norm_username, loc[p].user_id)
    /\ Goto(p, "save_user_hset", loc[p])
    /\ UNCHANGED <<next_user_id, user, sessions, stores, next_store_id, user_id_salt, rng>>

\* users.rs 56-66: HMSET user:<id>
save_user_hset_multiple(p) ==
    /\ pc[p] = "save_user_hset_multiple"
    /\ user' = hset_multiple(user_key(loc[p].user_id), user_record(loc[p]))
    /\ Goto(p, "save_user_hset", loc[p])
    /\ UNCHANGED <<next_user_id, users, sessions, stores, next_store_id, user_id_salt, rng>>

\* users.rs 67: HSET users <lower-cased username> <id>
save_user_hset(p) ==
    /\ pc[p] = "save_user_hset"
    /\ users' = Put(users, loc[p].norm_username, loc[p].user_id)
    /\ Goto(p, "save_user_store_session", loc[p])
    /\ UNCHANGED <<next_user_id, user, sessions, stores, next_store_id, user_id_salt, rng>>

\* users.rs 68-69: the session is stored and the token returned
save_user_store_session(p) ==
    /\ pc[p] = "save_user_store_session"
    /\ sessions' = store_session(loc[p].auth, loc[p].user_id)
    /\ ReturnUser(p, loc[p], [Reply("register", "Ok") EXCEPT !.username = loc[p].username,
                                              !.token = loc[p].auth,
                                              !.user_id = loc[p].user_id])
    /\ UNCHANGED <<next_user_id, users, user, stores, next_store_id, user_id_salt, rng>>

-----------------------------------------------------------------------------
(* delete_user / user::delete_user: DELETE /user *)

\* the deletion goes on although the token did not resolve
delete_user_get_user_id_unchecked(p) ==
    /\ pc[p] = "idle"
    /\ \E auth \in Presentable :
         Goto(p, "delete_user_hget",
              [NoLoc EXCEPT !.auth = auth,
                            !.user_id = IF has_session(auth) THEN get_user_id(auth) ELSE NoId])
    /\ UNCHANGED <<db, rng>>

\* users.rs 75: the token is resolved to the account id
delete_user_get_user_id(p) ==
    /\ pc[p] = "idle"
    /\ \E auth \in Presentable :
         LET l0 == [NoLoc EXCEPT !.auth = auth]
         IN  IF has_session(auth)
             THEN Goto(p, "delete_user_hget", [l0 EXCEPT !.user_id = get_user_id(auth)])
             ELSE Return(p, [Reply("delete", "Unauthorized") EXCEPT !.auth = auth])
    /\ UNCHANGED <<db, rng>>

\* users.rs 77: HGET user:<id> username; a nil reply is no String
delete_user_hget(p) ==
    /\ pc[p] = "delete_user_hget"
    /\ IF hget_ok(user_key(loc[p].user_id), "username")
       THEN Goto(p, "delete_user_stores",
                 [loc[p] EXCEPT !.stored = user[user_key(loc[p].user_id)].username])
       ELSE Return(p, [Reply("delete", "InternalError") EXCEPT !.auth = loc[p].auth,
                                                         !.user_id = loc[p].user_id])
    /\ UNCHANGED <<db, rng>>

\* users.rs 78: the stores of the account are deleted
delete_user_stores(p) ==
    /\ pc[p] = "delete_user_stores"
    /\ IF has_session(loc[p].auth)
       THEN /\ stores' = delete_all_user_stores(loc[p].auth)
            /\ Goto(p, "delete_user_hdel", loc[p])
       ELSE /\ Return(p, [Reply("delete", "Unauthorized") EXCEPT !.auth = loc[p].auth,
                                                             !.user_id = loc[p].user_id])
            /\ UNCHANGED stores
    /\ UNCHANGED <<next_user_id, users, user, sessions, next_store_id, user_id_salt, rng>>

\* HDEL with the username as stored, not lower-cased
delete_user_hdel_raw(p) ==
    /\ pc[p] = "delete_user_hdel"
    /\ users' = Del(users, loc[p].stored)
    /\ Goto(p, "delete_user_sessions", loc[p])
    /\ UNCHANGED <<next_user_id, user, sessions, stores, next_store_id, user_id_salt, rng>>

\* DEL users: the whole index is dropped
delete_user_hdel_all(p) ==
    /\ pc[p] = "delete_user_hdel"
    /\ users' = Empty
    /\ Goto(p, "delete_user_sessions", loc[p])
    /\ UNCHANGED <<next_user_id, user, sessions, stores, next_store_id, user_id_salt, rng>>

\* users.rs 79: HDEL users <lower-cased username>
delete_user_hdel(p) ==
    /\ pc[p] = "delete_user_hdel"
    /\ users' = Del(users, to_lowercase(loc[p].stored))
    /\ Goto(p, "delete_user_sessions", loc[p])
    /\ UNCHANGED <<next_user_id, user, sessions, stores, next_store_id, user_id_salt, rng>>

\* users.rs 80: the sessions of the account are deleted
delete_user_sessions(p) ==
    /\ pc[p] = "delete_user_sessions"
    /\ IF has_session(loc[p].auth)
       THEN /\ sessions' = delete_all_user_sessions(loc[p].auth)
            /\ Goto(p, "delete_user_del", loc[p])
       ELSE /\ Return(p, [Reply("delete", "Unauthorized") EXCEPT !.auth = loc[p].auth,
                                                             !.user_id = loc[p].user_id])
            /\ UNCHANGED sessions
    /\ UNCHANGED <<next_user_id, users, user, stores, next_store_id, user_id_salt, rng>>

\* users.rs 81: DEL user:<id>
delete_user_del(p) ==
    /\ pc[p] = "delete_user_del"
    /\ user' = Del(user, user_key(loc[p].user_id))
    /\ Return(p, [Reply("delete", "Ok") EXCEPT !.auth = loc[p].auth,
                                            !.user_id = loc[p].user_id,
                                            !.username = loc[p].stored])
    /\ UNCHANGED <<next_user_id, users, sessions, stores, next_store_id, user_id_salt, rng>>

-----------------------------------------------------------------------------
(* verify_password, then session::login: POST /login *)

InvalidCredentials(l) ==
    [Reply("login", "InvalidCredentials") EXCEPT !.username = l.username,
                                                 !.password = l.password]

\* users.rs 86-94: HGET users <lower-cased username>; a nil reply is no u32,
\* and the error is turned into INVALID_USER_OR_PWD
verify_password_hget_users(p) ==
    /\ pc[p] = "idle"
    /\ \E username \in Usernames, password \in Passwords :
         LET l0 == [NoLoc EXCEPT !.username = username, !.password = password]
         IN  IF hexists(users, to_lowercase(username))
             THEN Goto(p, "verify_password_hget_salt",
                       [l0 EXCEPT !.user_id = users[to_lowercase(username)]])
             ELSE ReturnAuthInfo(p, l0, InvalidCredentials(l0))
    /\ UNCHANGED <<db, rng>>

\* users.rs 96: HGET user:<id> salt_password
verify_password_hget_salt(p) ==
    /\ pc[p] = "verify_password_hget_salt"
    /\ IF hget_ok(user_key(loc[p].user_id), "salt_password")
       THEN Goto(p, "verify_password_hget_pwd",
                 [loc[p] EXCEPT !.salt_pwd = user[user_key(loc[p].user_id)].salt_password])
       ELSE ReturnAuthInfo(p, loc[p], [Reply("login", "InternalError") EXCEPT
                         !.username = loc[p].username, !.password = loc[p].password])
    /\ UNCHANGED <<db, rng>>

\* the comparison is skipped
password_matches_any(password, salt_pwd, stored_pwd) == TRUE

\* users.rs 98-99: the hash of the given password equals the stored one
password_matches(password, salt_pwd, stored_pwd) == hash(password, salt_pwd) = stored_pwd

\* users.rs 97-99, 102-107: HGET user:<id> password, and the comparison
verify_password_hget_pwd(p) ==
    /\ pc[p] = "verify_password_hget_pwd"
    /\ IF hget_ok(user_key(loc[p].user_id), "password")
       THEN IF password_matches(loc[p].password, loc[p].salt_pwd,
                                user[user_key(loc[p].user_id)].password)
            THEN Goto(p, "verify_password_hget_auth", loc[p])
            ELSE ReturnAuthInfo(p, loc[p], InvalidCredentials(loc[p]))
       ELSE ReturnAuthInfo(p, loc[p], [Reply("login", "InternalError") EXCEPT
                         !.username = loc[p].username, !.password = loc[p].password])
    /\ UNCHANGED <<db, rng>>

\* a new token is returned instead of the stored one
verify_password_hget_auth_new(p) ==
    /\ pc[p] = "verify_password_hget_auth"
    /\ Goto(p, "login_store_session", [loc[p] EXCEPT !.auth = gen_auth])
    /\ UNCHANGED <<db, rng>>

\* users.rs 100-101: HGET user:<id> auth; verify_password returns (auth, user_id)
verify_password_hget_auth(p) ==
    /\ pc[p] = "verify_password_hget_auth"
    /\ IF hget_ok(user_key(loc[p].user_id), "auth")
       THEN Goto(p, "login_store_session",
                 [loc[p] EXCEPT !.auth = user[user_key(loc[p].user_id)].auth])
       ELSE ReturnAuthInfo(p, loc[p], [Reply("login", "InternalError") EXCEPT
                         !.username = loc[p].username, !.password = loc[p].password])
    /\ UNCHANGED <<db, rng>>

\* login: the session of the returned token is stored (again)
login_store_session(p) ==
    /\ pc[p] = "login_store_session"
    /\ sessions' = store_session(loc[p].auth, loc[p].user_id)
    /\ ReturnAuthInfo(p, loc[p], [Reply("login", "Ok") EXCEPT !.username = loc[p].username,
                                            !.password = loc[p].password,
                                            !.token = loc[p].auth,
                                            !.user_id = loc[p].user_id])
    /\ UNCHANGED <<next_user_id, users, user, stores, next_store_id, user_id_salt, rng>>

-----------------------------------------------------------------------------
(* session::logout: POST /logout *)

\* the token is resolved first
logout_get_user_id(p) ==
    /\ pc[p] = "idle"
    /\ \E auth \in Presentable :
         IF has_session(auth)
         THEN Goto(p, "logout_delete_session",
                   [NoLoc EXCEPT !.auth = auth, !.user_id = get_user_id(auth)])
         ELSE Return(p, [Reply("logout", "Unauthorized") EXCEPT !.auth = auth])
    /\ UNCHANGED <<db, rng>>

\* then revoked
logout_delete_session(p) ==
    /\ pc[p] = "logout_delete_session"
    /\ sessions' = delete_session(loc[p].auth)
    /\ Return(p, [Reply("logout", "Ok") EXCEPT !.auth = loc[p].auth,
                                             !.user_id = loc[p].user_id])
    /\ UNCHANGED <<next_user_id, users, user, stores, next_store_id, user_id_salt, rng>>

-----------------------------------------------------------------------------
(* store::create_store: POST /store *)

create_store_get_user_id(p) ==
    /\ pc[p] = "idle"
    /\ next_store_id < MaxStores
    /\ \E auth \in Presentable :
         IF has_session(auth)
         THEN Goto(p, "create_store_save",
                   [NoLoc EXCEPT !.auth = auth, !.user_id = get_user_id(auth)])
         ELSE Return(p, [Reply("create_store", "Unauthorized") EXCEPT !.auth = auth])
    /\ UNCHANGED <<db, rng>>

create_store_save(p) ==
    /\ pc[p] = "create_store_save"
    /\ next_store_id < MaxStores
    /\ next_store_id' = next_store_id + 1
    /\ stores' = stores \cup {[store_id |-> next_store_id + 1, owner |-> loc[p].user_id]}
    /\ Return(p, [Reply("create_store", "Ok") EXCEPT !.auth = loc[p].auth,
                                                   !.user_id = loc[p].user_id])
    /\ UNCHANGED <<next_user_id, users, user, sessions, user_id_salt, rng>>

-----------------------------------------------------------------------------
(* regen_auth *)

\* the token of the record is written back instead of a new one
regen_auth_same(p) ==
    /\ pc[p] = "idle"
    /\ rng <= MaxRng
    /\ \E user_id \in DOMAIN user :
         /\ user' = hset_user(user_key(user_id), "auth", user[user_key(user_id)].auth)
         /\ Return(p, [Reply("regen_auth", "Ok") EXCEPT
                         !.user_id = user_id, !.token = user[user_key(user_id)].auth])
    /\ rng' = rng + 1
    /\ UNCHANGED <<next_user_id, users, sessions, stores, next_store_id, user_id_salt>>

\* users.rs 110-114: HSET user:<id> auth <new token>, for an account that
\* exists; one draw of the random source is left to it when the registrations
\* have used MaxRng
regen_auth(p) ==
    /\ pc[p] = "idle"
    /\ rng <= MaxRng
    /\ \E user_id \in DOMAIN user :
         /\ user' = hset_user(user_key(user_id), "auth", gen_auth)
         /\ Return(p, [Reply("regen_auth", "Ok") EXCEPT !.user_id = user_id,
                                                      !.token = gen_auth])
    /\ rng' = rng + 1
    /\ UNCHANGED <<next_user_id, users, sessions, stores, next_store_id, user_id_salt>>

-----------------------------------------------------------------------------
(* get_next_id / get_next_user_id (the hashed identifiers of ids.rs) *)

\* ids.rs 26-33: a random u64 in decimal
generate_salt == ToString(2 * (rng + 1))

\* ids.rs 49: the hashed counter value, parsed into the identifier type
hashed_id(id, salt) == hash(ToString(id), salt)

\* ids.rs 40: INCR next_user_id
get_next_id_incr(p) ==
    /\ pc[p] = "idle"
    /\ next_user_id < MaxUserId
    /\ next_user_id' = next_user_id + 1
    /\ Goto(p, "get_next_id_exists", [NoLoc EXCEPT !.id = next_user_id + 1])
    /\ UNCHANGED <<users, user, sessions, stores, next_store_id, user_id_salt, rng>>

\* ids.rs 41-44: EXISTS user_id_salt; when absent a salt is generated
get_next_id_exists(p) ==
    /\ pc[p] = "get_next_id_exists"
    /\ IF user_id_salt # NoSalt
       THEN /\ Goto(p, "get_next_id_get", loc[p])
            /\ UNCHANGED rng
       ELSE /\ rng < MaxRng
            /\ Goto(p, "get_next_id_set", [loc[p] EXCEPT !.salt_pwd = generate_salt])
            /\ rng' = rng + 1
    /\ UNCHANGED db

\* ids.rs 42, 49: GET user_id_salt, and the id is hashed with it
get_next_id_get(p) ==
    /\ pc[p] = "get_next_id_get"
    /\ Return(p, [Reply("get_next_id", "Ok") EXCEPT
                    !.hashed_id = hashed_id(loc[p].id, user_id_salt),
                    !.user_id = loc[p].id, !.salt = user_id_salt])
    /\ UNCHANGED <<db, rng>>

\* ids.rs 45-46, 49: SET user_id_salt, and the id is hashed with the generated salt
get_next_id_set(p) ==
    /\ pc[p] = "get_next_id_set"
    /\ user_id_salt' = loc[p].salt_pwd
    /\ Return(p, [Reply("get_next_id", "Ok") EXCEPT
                    !.hashed_id = hashed_id(loc[p].id, loc[p].salt_pwd),
                    !.user_id = loc[p].id, !.salt = loc[p].salt_pwd,
                    !.failed = loc[p].failed])
    /\ UNCHANGED <<next_user_id, users, user, sessions, stores, next_store_id, rng>>

-----------------------------------------------------------------------------
(* Storage failures.  A command that fails has no effect on the storage and  *)
(* returns a RedisError; `?` converts it into a ServerError with status      *)
(* INTERNAL_ERROR (error.rs 30-37) and returns it, unless the code handles   *)
(* the error itself.                                                         *)

\* the reply of a call that ends because a storage command failed
Failure(op, status) == [Reply(op, status) EXCEPT !.failed = TRUE]

\* users.rs 42: HEXISTS users fails
save_user_hexists_fails(p) ==
    /\ pc[p] = "idle"
    /\ \E password \in Passwords, email \in Emails :
         ReturnUser(p, [NoLoc EXCEPT !.password = password, !.email = email],
                    Failure("register", "InternalError"))
    /\ UNCHANGED <<db, rng>>

\* users.rs 55, 66, 67: INCR, HMSET or HSET users fails
save_user_fails(p) ==
    /\ pc[p] \in {"save_user_incr", "save_user_hset_multiple", "save_user_hset"}
    /\ ReturnUser(p, loc[p], Failure("register", "InternalError"))
    /\ UNCHANGED <<db, rng>>

\* users.rs 68: store_session returns an error
save_user_store_session_fails(p) ==
    /\ pc[p] = "save_user_store_session"
    /\ ReturnUser(p, loc[p], Failure("register", "InternalError"))
    /\ UNCHANGED <<db, rng>>

\* users.rs 77, 79, 81: HGET username, HDEL users or DEL user:<id> fails
delete_user_fails(p) ==
    /\ pc[p] \in {"delete_user_hget", "delete_user_hdel", "delete_user_del"}
    /\ Return(p, Failure("delete", "InternalError"))
    /\ UNCHANGED <<db, rng>>

\* users.rs 78, 80: delete_all_user_stores or delete_all_user_sessions
\* returns an error
delete_user_cascade_fails(p) ==
    /\ pc[p] \in {"delete_user_stores", "delete_user_sessions"}
    /\ Return(p, Failure("delete", "InternalError"))
    /\ UNCHANGED <<db, rng>>

\* users.rs 87-93: HGET users fails; or_else turns every error of this
\* command into INVALID_USER_OR_PWD
verify_password_hget_users_fails(p) ==
    /\ pc[p] = "idle"
    /\ \E password \in Passwords :
         ReturnAuthInfo(p, [NoLoc EXCEPT !.password = password],
                        Failure("login", "InvalidCredentials"))
    /\ UNCHANGED <<db, rng>>

\* users.rs 96, 97, 100: HGET salt_password, password or auth fails
verify_password_fails(p) ==
    /\ pc[p] \in {"verify_password_hget_salt", "verify_password_hget_pwd",
                  "verify_password_hget_auth"}
    /\ ReturnAuthInfo(p, loc[p], Failure("login", "InternalError"))
    /\ UNCHANGED <<db, rng>>

\* login: store_session returns an error
login_store_session_fails(p) ==
    /\ pc[p] = "login_store_session"
    /\ ReturnAuthInfo(p, loc[p], Failure("login", "InternalError"))
    /\ UNCHANGED <<db, rng>>

\* users.rs 112: HSET auth fails, after the token was drawn
regen_auth_fails(p) ==
    /\ pc[p] = "idle"
    /\ rng <= MaxRng
    /\ user # Empty
    /\ Return(p, Failure("regen_auth", "InternalError"))
    /\ rng' = rng + 1
    /\ UNCHANGED db

\* ids.rs 40: INCR fails
get_next_id_incr_fails(p) ==
    /\ pc[p] = "idle"
    /\ Return(p, Failure("get_next_id", "InternalError"))
    /\ UNCHANGED <<db, rng>>

\* ids.rs 41-46: EXISTS user_id_salt fails; the arm `_` takes the error for
\* an absent key, so a salt is generated and SET is the next command
get_next_id_exists_fails(p) ==
    /\ pc[p] = "get_next_id_exists"
    /\ rng < MaxRng
    /\ Goto(p, "get_next_id_set", [loc[p] EXCEPT !.salt_pwd = generate_salt,
                                                 !.failed = TRUE])
    /\ rng' = rng + 1
    /\ UNCHANGED db

\* ids.rs 42, 46: GET or SET user_id_salt fails
get_next_id_fails(p) ==
    /\ pc[p] \in {"get_next_id_get", "get_next_id_set"}
    /\ Return(p, Failure("get_next_id", "InternalError"))
    /\ UNCHANGED <<db, rng>>

-----------------------------------------------------------------------------
(* Specifications *)

RegisterStep(p) ==
    \/ save_user_hexists(p)
    \/ save_user_incr(p)
    \/ save_user_hset_multiple(p)
    \/ save_user_hset(p)
    \/ save_user_store_session(p)

DeleteStep(p) ==
    \/ delete_user_get_user_id(p)
    \/ delete_user_hget(p)
    \/ delete_user_stores(p)
    \/ delete_user_hdel(p)
    \/ delete_user_sessions(p)
    \/ delete_user_del(p)

LoginStep(p) ==
    \/ verify_password_hget_users(p)
    \/ verify_password_hget_salt(p)
    \/ verify_password_hget_pwd(p)
    \/ verify_password_hget_auth(p)
    \/ login_store_session(p)

LogoutStep(p) ==
    \/ logout_get_user_id(p)
    \/ logout_delete_session(p)

StoreStep(p) ==
    \/ create_store_get_user_id(p)
    \/ create_store_save(p)

\* the commands of the identifier allocation of ids.rs
IdStep(p) ==
    \/ get_next_id_incr(p)
    \/ get_next_id_exists(p)
    \/ get_next_id_get(p)
    \/ get_next_id_set(p)

\* the commands of the account requests of users.rs and its callers
Step(p) ==
    \/ RegisterStep(p)
    \/ DeleteStep(p)
    \/ LoginStep(p)
    \/ LogoutStep(p)
    \/ StoreStep(p)
    \/ regen_auth(p)

\* Registrations, deletions and identifier allocations in flight together,
\* their storage commands interleaved in any order.
Next == \E p \in Procs : RegisterStep(p) \/ DeleteStep(p) \/ IdStep(p)

Spec == Init /\ [][Next]_vars

\* Every account request, served one after another: one request is in flight.
SeqNext == Step("r1")

SeqSpec == Init /\ [][SeqNext]_vars

\* Registrations, logins and logouts in flight together.
SessionNext == \E p \in Procs : RegisterStep(p) \/ LoginStep(p) \/ LogoutStep(p)

SessionSpec == Init /\ [][SessionNext]_vars

\* Registrations, logins and deletions in flight together.
RaceNext == \E p \in Procs : RegisterStep(p) \/ LoginStep(p) \/ DeleteStep(p)

RaceSpec == Init /\ [][RaceNext]_vars

\* the storage failures of register, login and delete
AccountFails(p) ==
    \/ save_user_hexists_fails(p)
    \/ save_user_fails(p)
    \/ save_user_store_session_fails(p)
    \/ delete_user_fails(p)
    \/ delete_user_cascade_fails(p)
    \/ verify_password_hget_users_fails(p)
    \/ verify_password_fails(p)
    \/ login_store_session_fails(p)

\* the storage failures of the identifier allocation
IdFails(p) ==
    \/ get_next_id_incr_fails(p)
    \/ get_next_id_exists_fails(p)
    \/ get_next_id_fails(p)

\* Registrations, logins and deletions in flight together, every storage
\* command free to fail.
FailNext ==
    \E p \in Procs : RegisterStep(p) \/ LoginStep(p) \/ DeleteStep(p) \/ AccountFails(p)

FailSpec == Init /\ [][FailNext]_vars

\* Every request of users.rs and ids.rs, served one after another, every
\* storage command free to fail.
SeqFailNext ==
    \/ Step("r1")
    \/ IdStep("r1")
    \/ AccountFails("r1")
    \/ regen_auth_fails("r1")
    \/ IdFails("r1")

SeqFailSpec == Init /\ [][SeqFailNext]_vars

-----------------------------------------------------------------------------
(* Properties *)

\* the accounts whose username equals u case-insensitively
AccountsNamed(u) ==
    {i \in DOMAIN user : "username" \in DOMAIN user[i]
                         /\ to_lowercase(user[i].username) = to_lowercase(u)}

\* C1: after a successful register(username, ...) that returned token T and
\* allocated id I, the record of I exists with the username as given, the
\* Username Index maps the lower-cased username to I, the Session Store
\* resolves T to I, and T is the token stored in the record of I.
C1_RegisterPostcondition ==
    \A p \in Procs :
        (ret[p].op = "register" /\ ret[p].status = "Ok") =>
            /\ ret[p].user_id \in DOMAIN user
            /\ "username" \in DOMAIN user[ret[p].user_id]
            /\ user[ret[p].user_id].username = ret[p].username
            /\ to_lowercase(ret[p].username) \in DOMAIN users
            /\ users[to_lowercase(ret[p].username)] = ret[p].user_id
            /\ ret[p].token \in DOMAIN sessions
            /\ sessions[ret[p].token] = ret[p].user_id
            /\ "auth" \in DOMAIN user[ret[p].user_id]
            /\ user[ret[p].user_id].auth = ret[p].token

\* a registration of a mixed-case username has succeeded
C1_Witness ==
    \E p \in Procs : /\ ret[p].op = "register" /\ ret[p].status = "Ok"
                     /\ ret[p].username = ToTo
                     /\ users[toto] = ret[p].user_id

\* no two accounts have usernames that are equal case-insensitively
NoTwoAccountsNamedAlike ==
    \A i \in DOMAIN user : \A j \in DOMAIN user :
        (i # j /\ "username" \in DOMAIN user[i] /\ "username" \in DOMAIN user[j])
            => to_lowercase(user[i].username) # to_lowercase(user[j].username)

\* request p makes, in this step, the first command of register(u, ...)
RegisterCalled(p, u) ==
    /\ pc[p] = "idle"
    /\ \/ pc'[p] = "save_user_incr" /\ loc'[p].username = u
       \/ /\ pc'[p] = "idle" /\ ret'[p] # ret[p]
          /\ ret'[p].op = "register" /\ ret'[p].username = u

\* a register of a name that an existing account holds in some spelling
\* fails with UsernameTaken and writes nothing
LaterRegisterFails ==
    \A p \in Procs : \A u \in Usernames :
        (RegisterCalled(p, u) /\ AccountsNamed(u) # {}) =>
            /\ pc'[p] = "idle"
            /\ ret'[p].status = "UsernameTaken"
            /\ UNCHANGED db

\* C2: with requests served one after another and no deletion in between, of
\* the registrations of two usernames whose lower-cased forms are equal at
\* most one succeeds: every later register with either spelling fails with
\* UsernameTaken.
C2_UniqueUsername == [](NoTwoAccountsNamedAlike) /\ [][LaterRegisterFails]_vars

\* register("ToTo") was refused while the account "toto" exists
C2_Witness ==
    \E p \in Procs : /\ ret[p].op = "register" /\ ret[p].status = "UsernameTaken"
                     /\ ret[p].username = ToTo
                     /\ \E i \in DOMAIN user : user[i].username = toto

\* C3: of two register calls for the same (case-insensitively equal) username
\* that run concurrently, exactly one returns a token and the other returns
\* UsernameTaken; they never both succeed.
C3_NeverBothSucceed ==
    \A p \in Procs : \A q \in Procs \ {p} :
        ~ /\ ret[p].op = "register" /\ ret[p].status = "Ok"
          /\ ret[q].op = "register" /\ ret[q].status = "Ok"
          /\ to_lowercase(ret[p].username) = to_lowercase(ret[q].username)
          /\ ret[p].user_id \in DOMAIN user
          /\ ret[q].user_id \in DOMAIN user

\* verify would accept (username, password): an account named so, in any
\* case, holds the hash of that password under its own password salt
RegisteredWith(username, password) ==
    \E i \in AccountsNamed(username) :
        /\ {"password", "salt_password"} \subseteq DOMAIN user[i]
        /\ user[i].password = hash(password, user[i].salt_password)

\* the record written by a registration holds the hash of the password given
\* to it, under the salt the record holds
RegisterStoresHash ==
    \A p \in Procs :
        (pc[p] = "save_user_hset_multiple" /\ pc'[p] = "save_user_hset") =>
            /\ loc[p].user_id \in DOMAIN user'
            /\ user'[loc[p].user_id].username = loc[p].username
            /\ user'[loc[p].user_id].password =
                   hash(loc[p].password, user'[loc[p].user_id].salt_password)

\* as long as an account exists, its username, hash and salt stay the same
CredentialsKept ==
    \A i \in DOMAIN user \cap DOMAIN user' :
        \A f \in {"username", "password", "salt_password"} :
            f \in DOMAIN user[i] => (f \in DOMAIN user'[i] /\ user'[i][f] = user[i][f])

\* a login succeeds exactly when the credentials are the registered ones, and
\* otherwise fails with InvalidCredentials
LoginReplyCorrect ==
    \A p \in Procs :
        ret[p].op = "login" =>
            /\ ret[p].status = "Ok" <=> RegisteredWith(ret[p].username, ret[p].password)
            /\ ret[p].status \in {"Ok", "InvalidCredentials"}

\* C4: with no concurrent operation and no storage failure, verify(username,
\* password) succeeds iff an account exists whose username equals the given
\* one case-insensitively and that was registered with exactly that password;
\* every other username or password fails with InvalidCredentials.
C4_VerifyIffRegistered ==
    /\ [](LoginReplyCorrect)
    /\ [][RegisterStoresHash /\ CredentialsKept]_vars

\* a login in another spelling of the username succeeded
C4_Witness ==
    \E p \in Procs : /\ ret[p].op = "login" /\ ret[p].status = "Ok"
                     /\ ret[p].username = ToTo /\ ret[p].password = "pwdb"
                     /\ user[ret[p].user_id].username = toto

\* C5: after deleteAccount(token) returned ok for account A, no token resolves
\* to A, the record of A is absent, the Username Index has no entry for the
\* lower-cased username of A (a register of it passes the uniqueness check),
\* and no store owned by A remains.
C5_DeletePostcondition ==
    \A p \in Procs :
        (ret[p].op = "delete" /\ ret[p].status = "Ok") =>
            /\ ret[p].auth \notin DOMAIN sessions
            /\ \A t \in DOMAIN sessions : sessions[t] # ret[p].user_id
            /\ ret[p].user_id \notin DOMAIN user
            /\ ~ hexists(users, to_lowercase(ret[p].username))
            /\ \A n \in DOMAIN users : users[n] # ret[p].user_id
            /\ \A s \in stores : s.owner # ret[p].user_id

\* the account "ToTo", which owned a store, was deleted
C5_Witness ==
    \E p \in Procs : /\ ret[p].op = "delete" /\ ret[p].status = "Ok"
                     /\ ret[p].username = ToTo
                     /\ next_store_id = 1 /\ stores = {}

DeletePcs == {"delete_user_hget", "delete_user_stores", "delete_user_hdel",
              "delete_user_sessions", "delete_user_del"}

\* what the storage holds of account b
AccountView(b) ==
    [record |-> IF b \in DOMAIN user THEN <<user[b]>> ELSE <<>>,
     index |-> {n \in DOMAIN users : users[n] = b},
     tokens |-> {t \in DOMAIN sessions : sessions[t] = b},
     owned |-> {s \in stores : s.owner = b}]

\* a command of the deletion of account A changes nothing of another account
DeleteFrame ==
    \A p \in Procs :
        /\ (pc[p] \in DeletePcs /\ pc'[p] # pc[p]) =>
               \A b \in 1..MaxUserId :
                   b # loc[p].user_id => AccountView(b)' = AccountView(b)
        /\ (pc[p] = "idle" /\ pc'[p] = "delete_user_hget") => UNCHANGED db

\* C6: with operations executed one after another, deleting account A leaves
\* the record, the Username Index entry and the session entries of every
\* other account B as they were.
C6_DeleteLeavesOthers == [][DeleteFrame]_vars

\* an account was deleted while another account, with a session, exists
C6_Witness ==
    \E p \in Procs : /\ ret[p].op = "delete" /\ ret[p].status = "Ok"
                     /\ \E b \in DOMAIN user :
                          /\ b # ret[p].user_id
                          /\ \E t \in DOMAIN sessions : sessions[t] = b
                          /\ \E n \in DOMAIN users : users[n] = b

\* the last command of a logout leaves its token unresolved and returns ok
LogoutRevokes ==
    \A p \in Procs :
        (pc[p] = "logout_delete_session" /\ pc'[p] # pc[p]) =>
            /\ loc[p].auth \notin DOMAIN sessions'
            /\ ret'[p].op = "logout" /\ ret'[p].status = "Ok"
            /\ \A t \in DOMAIN sessions \ {loc[p].auth} :
                   t \in DOMAIN sessions' /\ sessions'[t] = sessions[t]

\* a token that does not resolve starts to resolve only when a login or a
\* register stores it
OnlyLoginOrRegisterStores ==
    \A t \in DOMAIN sessions' \ DOMAIN sessions :
        \E p \in Procs :
            /\ pc[p] \in {"login_store_session", "save_user_store_session"}
            /\ pc'[p] = "idle"
            /\ loc[p].auth = t

\* revoking a token that is absent returns ok and changes nothing stored
RevokeAbsent ==
    \A p \in Procs :
        (/\ pc[p] = "logout_delete_session" /\ pc'[p] # pc[p]
         /\ loc[p].auth \notin DOMAIN sessions) =>
            /\ ret'[p].status = "Ok"
            /\ UNCHANGED db

\* C7: after logout(T) returned ok, resolve(T) fails until a later login or
\* register stores T again; and the revoke of a token that is absent from the
\* Session Store succeeds and changes nothing.
C7_LogoutRevokes ==
    [][LogoutRevokes /\ OnlyLoginOrRegisterStores /\ RevokeAbsent]_vars

\* two logouts of one token both returned ok: the second revoked an absent token
C7_Witness ==
    /\ ret["r1"].op = "logout" /\ ret["r1"].status = "Ok"
    /\ ret["r2"].op = "logout" /\ ret["r2"].status = "Ok"
    /\ ret["r1"].auth = ret["r2"].auth
    /\ sessions # Empty

AllocPcs == {"save_user_hset_multiple", "save_user_hset", "save_user_store_session",
             "get_next_id_exists", "get_next_id_get", "get_next_id_set"}

\* request p holds a counter value it obtained from INCR next_user_id
HasAllocated(p) ==
    \/ pc[p] \in AllocPcs
    \/ ret[p].op \in {"register", "get_next_id"} /\ ret[p].status = "Ok"

\* the counter value request p obtained
Allocated(p) ==
    IF pc[p] \in {"get_next_id_exists", "get_next_id_get", "get_next_id_set"}
    THEN loc[p].id
    ELSE IF pc[p] \in AllocPcs THEN loc[p].user_id ELSE ret[p].user_id

\* request p executes INCR next_user_id in this step
Increments(p) ==
    \/ pc[p] = "save_user_incr" /\ pc'[p] = "save_user_hset_multiple"
    \/ pc[p] = "idle" /\ pc'[p] = "get_next_id_exists"

\* every account id the storage or a request holds
IdsHeld ==
    DOMAIN user \cup {users[n] : n \in DOMAIN users}
                \cup {sessions[t] : t \in DOMAIN sessions}
                \cup {s.owner : s \in stores}
                \cup {Allocated(p) : p \in {q \in Procs : HasAllocated(q)}}

\* an increment yields the old value plus one, and only an increment changes
\* the counter
CounterStep ==
    /\ next_user_id' >= next_user_id
    /\ next_user_id' # next_user_id => \E p \in Procs : Increments(p)
    /\ \A p \in Procs :
           Increments(p) => /\ next_user_id' = next_user_id + 1
                            /\ Allocated(p)' = next_user_id + 1
                            /\ Allocated(p)' \notin IdsHeld

\* no two allocations hold the same counter value, no id is ahead of the
\* counter, and with one salt two allocations have different identifiers
AllocationsDistinct ==
    /\ \A i \in IdsHeld : i >= 1 /\ i <= next_user_id
    /\ \A p \in Procs : \A q \in Procs \ {p} :
           /\ (HasAllocated(p) /\ HasAllocated(q)) => Allocated(p) # Allocated(q)
           /\ (/\ ret[p].op = "get_next_id" /\ ret[q].op = "get_next_id"
               /\ ret[p].salt = ret[q].salt) => ret[p].hashed_id # ret[q].hashed_id

\* C8: the account-id counter starts at 0 and the k-th increment yields k; no
\* two allocations, sequential or concurrent, obtain the same value and the
\* counter never decreases, so an identifier is never issued twice, not even
\* after the account that held it was deleted.
C8_CounterNeverRepeats ==
    /\ next_user_id = 0
    /\ [](AllocationsDistinct)
    /\ [][CounterStep]_vars

\* the username of deleted account 1 was registered again, with id 2
C8_Witness ==
    \E p \in Procs : \E q \in Procs :
        /\ ret[p].op = "delete" /\ ret[p].status = "Ok" /\ ret[p].user_id = 1
        /\ ret[q].op = "register" /\ ret[q].status = "Ok" /\ ret[q].user_id = 2
        /\ to_lowercase(ret[p].username) = to_lowercase(ret[q].username)

\* C9: when two or more nextId calls run concurrently while the identifier
\* salt is not yet persisted, every one of them hashes its counter value with
\* the same salt, and that salt is the one that remains persisted.
C9_OneSalt ==
    \A p \in Procs :
        (ret[p].op = "get_next_id" /\ ret[p].status = "Ok") =>
            /\ ret[p].salt = user_id_salt
            /\ ret[p].hashed_id = hashed_id(ret[p].user_id, user_id_salt)

\* C10: a successful login returns the token currently stored in the account
\* record (after regen_auth the new one) with the id of that account, and
\* after it returned the Session Store resolves the token to that id.
C10_LoginReturnsStoredToken ==
    \A p \in Procs :
        (ret[p].op = "login" /\ ret[p].status = "Ok") =>
            /\ ret[p].user_id \in DOMAIN user
            /\ ret[p].user_id \in AccountsNamed(ret[p].username)
            /\ user[ret[p].user_id].auth = ret[p].token
            /\ ret[p].token \in DOMAIN sessions
            /\ sessions[ret[p].token] = ret[p].user_id

\* a login after regen_auth returned the new token of account 1, while the
\* token of the registration did not resolve (a logout had revoked it)
C10_Witness ==
    \E p \in Procs : /\ ret[p].op = "login" /\ ret[p].status = "Ok"
                     /\ ret[p].user_id = 1 /\ ret[p].token = 2
                     /\ 1 \notin DOMAIN sessions

\* request p makes, in this step, the first command of deleteAccount(t) or of
\* logout(t)
AuthenticatedCall(p, t) ==
    /\ pc[p] = "idle"
    /\ \/ pc'[p] \in {"delete_user_hget", "logout_delete_session"} /\ loc'[p].auth = t
       \/ /\ pc'[p] = "idle" /\ ret'[p] # ret[p]
          /\ ret'[p].op \in {"delete", "logout"} /\ ret'[p].auth = t

\* a call with a token that does not resolve is over at once, with
\* Unauthorized, and nothing stored has changed
UnresolvedFailsClosed ==
    \A p \in Procs : \A t \in Presentable :
        (AuthenticatedCall(p, t) /\ ~ has_session(t)) =>
            /\ pc'[p] = "idle"
            /\ ret'[p].status = "Unauthorized"
            /\ UNCHANGED db

\* C11: logout and deleteAccount called with a token that the Session Store
\* does not resolve fail with Unauthorized, and then no account record, no
\* Username Index entry, no session entry and no store is changed.
C11_UnresolvedTokenUnauthorized == [][UnresolvedFailsClosed]_vars

\* deleteAccount with the revoked token of account 1 was refused; the account
\* and its store are still there
C11_Witness ==
    \E p \in Procs : /\ ret[p].op = "delete" /\ ret[p].status = "Unauthorized"
                     /\ ret[p].auth = 1
                     /\ 1 \in DOMAIN user /\ 1 \notin DOMAIN sessions
                     /\ \E s \in stores : s.owner = 1

\* every entry of the Username Index maps to an account whose record exists
IndexedRecordsExist == \A n \in DOMAIN users : users[n] \in DOMAIN user

\* an index entry is written only for an account whose record is already
\* in the storage, with its username
IndexWrittenAfterRecord ==
    \A n \in DOMAIN users' :
        (n \notin DOMAIN users \/ users'[n] # users[n]) =>
            /\ users'[n] \in DOMAIN user
            /\ "username" \in DOMAIN user[users'[n]]
            /\ to_lowercase(user[users'[n]].username) = n

\* C12: under any interleaving of register, login and delete, with any
\* storage command allowed to fail, every Username Index entry maps to an
\* account id whose record exists; a registration never writes the index
\* entry before the account record.
C12_IndexPointsAtRecord ==
    [](IndexedRecordsExist) /\ [][IndexWrittenAfterRecord]_vars

\* a deletion failed after its HDEL while a registration wrote its record:
\* two records are stored and the index has an entry for one of them only
C12_Witness ==
    \E p \in Procs :
        /\ ret[p].op = "delete" /\ ret[p].failed
        /\ users # Empty
        /\ \E i \in DOMAIN user : \A n \in DOMAIN users : users[n] # i
        /\ \E q \in Procs : pc[q] = "save_user_store_session"

\* the raw secrets a client passes to register or login
RawSecrets == Passwords \cup Emails

\* the fields of an account record that hold text derived from the secrets
SecretFields == {"email", "password", "salt_mail", "salt_password"}

\* no text the storage holds is a raw secret
NoRawSecretStored ==
    /\ user_id_salt \notin RawSecrets
    /\ \A i \in DOMAIN user : \A f \in SecretFields \cap DOMAIN user[i] :
           user[i][f] \notin RawSecrets

\* a record holds the hash of a password under its password salt and the
\* hash of an email under its email salt
RecordHoldsHashes ==
    \A i \in DOMAIN user :
        SecretFields \subseteq DOMAIN user[i] =>
            /\ \E password \in Passwords :
                   user[i].password = hash(password, user[i].salt_password)
            /\ \E email \in Emails :
                   user[i].email = hash(email, user[i].salt_mail)

\* the HMSET of a registration stores the hashes of the password and of the
\* email given to it, under the two salts it stores
RegisterWritesHashes ==
    \A p \in Procs :
        (pc[p] = "save_user_hset_multiple" /\ pc'[p] = "save_user_hset") =>
            /\ loc[p].user_id \in DOMAIN user'
            /\ user'[loc[p].user_id].password =
                   hash(loc[p].password, user'[loc[p].user_id].salt_password)
            /\ user'[loc[p].user_id].email =
                   hash(loc[p].email, user'[loc[p].user_id].salt_mail)

\* C13: in every reachable state no value held by the storage equals a raw
\* password or a raw email passed to register or login; the account record
\* holds only hash(password, password_salt), hash(email, email_salt) and the
\* two salts.
C13_NoRawSecretPersisted ==
    /\ [](NoRawSecretStored /\ RecordHoldsHashes)
    /\ [][RegisterWritesHashes]_vars

\* a login with the raw password "pwd" succeeded against a record that holds
\* its hash
C13_Witness ==
    \E p \in Procs :
        /\ ret[p].op = "login" /\ ret[p].status = "Ok" /\ ret[p].password = "pwd"
        /\ ret[p].user_id \in DOMAIN user
        /\ user[ret[p].user_id].password =
               hash("pwd", user[ret[p].user_id].salt_password)

\* C14: whenever a storage command issued by register, verify,
\* reissueSession, delete or nextId fails, the operation returns
\* InternalError; a storage failure is never reported as UsernameTaken,
\* InvalidCredentials or Unauthorized and is never silently ignored.
C14_StorageFailureIsInternalError ==
    \A p \in Procs : ret[p].failed => ret[p].status = "InternalError"

\* the tokens that resolve to account a
TokensOf(a) == {t \in DOMAIN sessions : sessions[t] = a}

\* C15: at any time at most one session token resolves to a given account:
\* after reissueSession or a new login for account A, every token previously
\* issued to A no longer resolves.
C15_OneTokenPerAccount ==
    \A a \in DOMAIN user : Cardinality(TokensOf(a)) <= 1

\* request p returns, in this step, from reissueSession(a)
Reissued(p, a) ==
    /\ pc[p] = "idle" /\ pc'[p] = "idle"
    /\ ret'[p].op = "regen_auth" /\ ret'[p].status = "Ok" /\ ret'[p].user_id = a

\* reissueSession puts a token into the record that was never issued, and
\* the tokens issued before resolve as they did
ReissueReplaces ==
    \A p \in Procs : \A a \in 1..MaxUserId :
        Reissued(p, a) =>
            /\ user'[a].auth # user[a].auth
            /\ user'[a].auth \notin DOMAIN sessions'
            /\ ret'[p].token = user'[a].auth
            /\ TokensOf(a)' = TokensOf(a)

\* C15 as amended: the record of an account holds one session token;
\* reissueSession for account A replaces it by a new token that no session
\* entry resolves yet, and every token previously issued to A keeps
\* resolving until it is revoked, so more than one token can resolve to A.
C15_OneStoredToken == [][ReissueReplaces]_vars

\* after reissueSession and a new login, the token of the registration and
\* the new token both resolve to account 1
C15_Witness ==
    \E p \in Procs :
        /\ ret[p].op = "login" /\ ret[p].status = "Ok"
        /\ ret[p].user_id = 1 /\ ret[p].token = 2
        /\ TokensOf(1) = {1, 2}

\* reissueSession(a) changes the token field of the record of a, and nothing
\* else that is stored
ReissueFrame ==
    \A p \in Procs : \A a \in 1..MaxUserId :
        Reissued(p, a) =>
            /\ DOMAIN user' = DOMAIN user
            /\ \A b \in DOMAIN user \ {a} : user'[b] = user[b]
            /\ DOMAIN user'[a] = DOMAIN user[a]
            /\ \A f \in DOMAIN user[a] \ {"auth"} : user'[a][f] = user[a][f]
            /\ UNCHANGED <<users, sessions, stores, next_user_id, next_store_id,
                           user_id_salt>>

\* C16: reissueSession(accountId) changes only the session-token field of
\* that account's record: its username, password hash, email hash and both
\* salts, every other account record, the Username Index and every Session
\* Store entry (the entry of the replaced token included) are unchanged.
C16_ReissueFrame == [][ReissueFrame]_vars

\* account 1 got a new token while account 2 exists; the replaced token 1
\* and the token of account 2 resolve as before
C16_Witness ==
    \E p \in Procs :
        /\ ret[p].op = "regen_auth" /\ ret[p].status = "Ok" /\ ret[p].user_id = 1
        /\ 2 \in DOMAIN user
        /\ user[1].auth = 3
        /\ 1 \in DOMAIN sessions /\ sessions[1] = 1
        /\ 2 \in DOMAIN sessions /\ sessions[2] = 2

\* request p is in the middle of deleteAccount of account a
Deleting(p, a) == pc[p] \in DeletePcs /\ loc[p].user_id = a

\* what is left of account a: its record, its index entries, its sessions
Remains(a) ==
    {x \in {"record", "index", "sessions"} :
        \/ x = "record" /\ a \in DOMAIN user
        \/ x = "index" /\ \E n \in DOMAIN users : users[n] = a
        \/ x = "sessions" /\ TokensOf(a) # {}}

\* a deletion of a is under way and has removed some, but not all, of the
\* record, the index entry and the session entries of a
PartlyRemoved(a) ==
    /\ \E p \in Procs : Deleting(p, a)
    /\ Remains(a) # {}
    /\ Remains(a) # {"record", "index", "sessions"}

\* the next command of request q reads the index, a record or the sessions
ReadsNext(q) ==
    pc[q] \in {"idle", "verify_password_hget_salt", "verify_password_hget_pwd",
               "verify_password_hget_auth", "delete_user_hget"}

\* while account a is partly removed, no request other than the ones
\* deleting a executes a command that reads
NoReadOfPartlyRemoved ==
    \A a \in 1..MaxUserId : \A q \in Procs :
        (PartlyRemoved(a) /\ ~ Deleting(q, a) /\ ReadsNext(q)) =>
            (pc'[q] = pc[q] /\ ret'[q] = ret[q])

\* C17: no operation running concurrently with deleteAccount of account A
\* observes a state in which some but not all of A's account record, A's
\* Username Index entry and A's session entries have been removed.
C17_DeleteAtomic == [][NoReadOfPartlyRemoved]_vars

\* request p has returned from the operation op
Returned(p, op) == pc[p] = "idle" /\ ret[p].op = op

\* C18: on every exit path of register and login, success or error, the
\* in-memory holder of the raw password (and of the raw email for register)
\* has been overwritten by the time the operation has returned, so it no
\* longer contains the raw secret.
C18_SecretsWiped ==
    \A p \in Procs :
        /\ Returned(p, "login") =>
               loc[p].password = "0" /\ loc[p].password \notin Passwords
        /\ Returned(p, "register") =>
               /\ loc[p].password = "0" /\ loc[p].password \notin Passwords
               /\ loc[p].email = "0" /\ loc[p].email \notin Emails

\* a registration returned an error after its record was written (a storage
\* command failed): the password and the email of its User are wiped
C18_Witness ==
    /\ Returned("r1", "register") /\ ret["r1"].failed /\ user # Empty
    /\ loc["r1"].password = "0" /\ loc["r1"].email = "0"

\* a salt that is persisted stays the persisted salt
SaltKept == user_id_salt # NoSalt => user_id_salt' = user_id_salt

\* C19: once an identifier salt has been persisted under the salt key, no
\* later nextId call changes it, including a call whose existence check on
\* the salt key fails with a storage error; hence the identifier of a given
\* counter value is the same whenever it is computed.
C19_SaltNeverChanges == [][SaltKept]_vars

\* the HDEL of a deletion of account A leaves the index entries of every
\* other account in place
DeleteKeepsOtherEntries ==
    \A p \in Procs :
        (pc[p] = "delete_user_hdel" /\ pc'[p] # pc[p]) =>
            \A n \in DOMAIN users :
                users[n] # loc[p].user_id =>
                    (n \in DOMAIN users' /\ users'[n] = users[n])

\* when no request is in flight, the account of every registration that
\* returned a token has its index entry as long as its record exists
IdleRecordsIndexed ==
    (\A q \in Procs : pc[q] = "idle") =>
        \A p \in Procs :
            (/\ ret[p].op = "register" /\ ret[p].status = "Ok"
             /\ ret[p].user_id \in DOMAIN user) =>
                \E n \in DOMAIN users : users[n] = ret[p].user_id

\* C20: under any interleaving of delete_user calls (two concurrent deletes
\* with the same token included) with save_user calls, a delete of account A
\* never removes the Username Index entry of a different account B; whenever
\* no operation is in progress, every existing account record whose
\* registration succeeded still has its index entry.
C20_DeleteKeepsIndexOfOthers ==
    [](IdleRecordsIndexed) /\ [][DeleteKeepsOtherEntries]_vars

\* no request is in flight
AllIdle == \A q \in Procs : pc[q] = "idle"

\* C21: whenever no operation is in progress, every Session Store entry
\* maps its token to an account whose record exists, also when a login for
\* account A (verify followed by the session store) was interleaved with a
\* deleteAccount of A.
C21_SessionsOfExistingAccounts ==
    AllIdle => \A t \in DOMAIN sessions : sessions[t] \in DOMAIN user

\* C22: with no storage failure, verify_password running concurrently with
\* delete_user of the same account returns either success or
\* InvalidCredentials, never InternalError: it never finds the username in
\* the index and then fails to read the password salt or hash because the
\* account record is already deleted.
C22_VerifyNeverInternalError ==
    \A p \in Procs :
        ret[p].op = "login" => ret[p].status \in {"Ok", "InvalidCredentials"}

====
